---- MODULE Spec2Model ----
(***************************************************************************)
(* Processor / chipset extraction (Kingston DB import scripts).            *)
(*                                                                         *)
(* Three script variants are modelled:                                     *)
(*   src/Kingston_DB_import_chunks/sample.py  (precompiled patterns)       *)
(*   src/sample.py                            (inline patterns)            *)
(*   src/Kingston_DB_import_chunks/new.py     (ProcessorParser class)      *)
(*                                                                         *)
(* Python str values are TLA+ strings; positions are 0-based as in Python. *)
(* Regular expressions are values (trees) interpreted by a backtracking    *)
(* matcher with Python's priorities: alternatives left to right, greedy    *)
(* repetition longest first, lazy repetition shortest first, search        *)
(* leftmost first.                                                         *)
(***************************************************************************)
EXTENDS Integers, Sequences, FiniteSets, TLC

----------------------------------------------------------------------------
(* Python str primitives *)

\* s[i]
At(s, i) == SubSeq(s, i + 1, i + 1)

\* s[a:b] for a, b >= 0 (an end past len(s) is clipped, as Python clips it)
Slice(s, a, b) == SubSeq(s, a + 1, IF b > Len(s) THEN Len(s) ELSE b)

\* s[a:]
SliceFrom(s, a) == SubSeq(s, a + 1, Len(s))

CharsOf(str) == {At(str, i) : i \in 0..(Len(str) - 1)}

UpperChars == "ABCDEFGHIJKLMNOPQRSTUVWXYZ"
LowerChars == "abcdefghijklmnopqrstuvwxyz"
DigitChars == "0123456789"

\* the other-case form of a character (itself when it has none)
SwapCase(c) ==
    IF \E i \in 0..25 : At(UpperChars, i) = c
    THEN At(LowerChars, CHOOSE i \in 0..25 : At(UpperChars, i) = c)
    ELSE IF \E i \in 0..25 : At(LowerChars, i) = c
         THEN At(UpperChars, CHOOSE i \in 0..25 : At(LowerChars, i) = c)
         ELSE c

\* a character class compiled with re.IGNORECASE
IC(S) == S \cup {SwapCase(c) : c \in S}

\* \s  (the ASCII whitespace str.isspace() and \s agree on)
Whitespace == {" ", "\t", "\n", "\r", "\f"}
\* \d
Digit == CharsOf(DigitChars)
\* [A-Za-z]
Letter == CharsOf(UpperChars) \cup CharsOf(LowerChars)
\* [A-Za-z0-9]
Alnum == Letter \cup Digit
\* [A-Za-z0-9-]
AlnumHyphen == Alnum \cup {"-"}

\* the first position at or after i whose character is not in cs; len(s) if none
LStripFrom(s, cs, i) ==
    IF i >= Len(s) THEN i
    ELSE CHOOSE j \in i..Len(s) :
            /\ j = Len(s) \/ At(s, j) \notin cs
            /\ \A q \in i..(j - 1) : At(s, q) \in cs

\* the end of the text left when the characters of cs are taken off the end
\* of s[lo:j]
RStripFrom(s, cs, lo, j) ==
    IF j <= lo THEN j
    ELSE CHOOSE e \in lo..j :
            /\ e = lo \/ At(s, e - 1) \notin cs
            /\ \A q \in e..(j - 1) : At(s, q) \in cs

\* s.strip(chars)
StripChars(s, cs) ==
    LET a == LStripFrom(s, cs, 0)
        b == RStripFrom(s, cs, a, Len(s))
    IN  Slice(s, a, b)

\* s.strip()
strip(s) == StripChars(s, Whitespace)

RECURSIVE ReplaceIn(_, _, _, _, _)
\* s[a:b] with each character old replaced by new
ReplaceIn(s, old, new, a, b) ==
    IF b <= a THEN ""
    ELSE IF b = a + 1 THEN (IF At(s, a) = old THEN new ELSE At(s, a))
    ELSE ReplaceIn(s, old, new, a, (a + b) \div 2)
         \o ReplaceIn(s, old, new, (a + b) \div 2, b)

\* s.replace(old, new) for a one-character old
replace(s, old, new) == ReplaceIn(s, old, new, 0, Len(s))

\* s.endswith(t)
endswith(s, t) == Len(s) >= Len(t) /\ Slice(s, Len(s) - Len(t), Len(s)) = t

\* t in s
Contains(s, t) == \E i \in 0..(Len(s) - Len(t)) : Slice(s, i, i + Len(t)) = t

----------------------------------------------------------------------------
(* Regular expressions: the re module's matcher *)

Set(S) == [t |-> "set", cs |-> S]
NotSet(S) == [t |-> "nset", cs |-> S]
Cat(rs) == [t |-> "cat", rs |-> rs]
Alt(rs) == [t |-> "alt", rs |-> rs]
Grp(n, r) == [t |-> "grp", n |-> n, r |-> r]
\* r{lo,hi}; hi = -1 is unbounded
Rep(r, lo, hi, greedy) == [t |-> "rep", r |-> r, lo |-> lo, hi |-> hi, greedy |-> greedy]
Star(r) == Rep(r, 0, -1, TRUE)
Plus(r) == Rep(r, 1, -1, TRUE)
Opt(r) == Rep(r, 0, 1, TRUE)
LazyPlus(r) == Rep(r, 1, -1, FALSE)
Bol == [t |-> "bol"]
Eol == [t |-> "eol"]
\* a literal, case-sensitive: one singleton class per character
Lit(str) == [t |-> "lit", cs |-> [i \in 1..Len(str) |-> {SubSeq(str, i, i)}]]
\* a literal under re.IGNORECASE
LitI(str) == [t |-> "lit", cs |-> [i \in 1..Len(str) |-> IC({SubSeq(str, i, i)})]]

\* capture groups 1..5, each <<start, end>>; <<-1, -1>> when the group took no part
NoGroups == [n \in 1..5 |-> <<-1, -1>>]
NoMatch == [ok |-> FALSE, b |-> -1, e |-> -1, g |-> NoGroups]

\* whether the character class node r accepts character c
Accepts(r, c) == IF r.t = "set" THEN c \in r.cs ELSE c \notin r.cs

\* the longest run a repetition with upper bound hi can take from position i
\* (hi < 0: no bound)
RunLimit(s, i, hi) == IF hi < 0 \/ hi > Len(s) - i THEN Len(s) - i ELSE hi

\* how many characters from position i the class r accepts, at most hi
RunLen(r, s, i, hi) ==
    CHOOSE n \in 0..RunLimit(s, i, hi) :
        /\ n = RunLimit(s, i, hi) \/ ~Accepts(r, At(s, i + n))
        /\ \A q \in 0..(n - 1) : Accepts(r, At(s, i + q))

\* The matcher follows the backtracking engine's order of trial.  A match
\* state is a position p with the groups g captured on the way to it; for the
\* nodes k and the states L that reach them, Ends is the list of states after
\* k, first choice first, one state per position (of two ways to the same
\* position the engine only ever completes the one it tries first).
Nodes(r) == IF r.t = "cat" THEN r.rs ELSE <<r>>

RECURSIVE Flat(_, _, _)
\* seqs[a] \o ... \o seqs[b]
Flat(seqs, a, b) ==
    IF a > b THEN <<>>
    ELSE IF a = b THEN seqs[a]
    ELSE Flat(seqs, a, (a + b) \div 2) \o Flat(seqs, (a + b) \div 2 + 1, b)

\* the states of F that are the first of F at their position
KeepFirst(F) ==
    IF F = <<>> THEN <<>>
    ELSE LET first == SelectSeq([j \in 1..Len(F) |-> j],
                                LAMBDA j : \A i \in 1..(j - 1) : F[i].p # F[j].p)
         IN  [n \in 1..Len(first) |-> F[first[n]]]

\* the states A, then those of B at a position that no state of A has
Joined(A, B) == A \o SelectSeq(B, LAMBDA y : \A i \in 1..Len(A) : A[i].p # y.p)

Advance(L, d) == [j \in 1..Len(L) |-> [p |-> L[j].p + d, g |-> L[j].g]]

LitAt(cs, s, i) ==
    /\ i + Len(cs) <= Len(s)
    /\ \A j \in 1..Len(cs) : At(s, i + j - 1) \in cs[j]

EolAt(s, i) == i = Len(s) \/ (i = Len(s) - 1 /\ At(s, i) = "\n")

\* a class repetition that can take r.lo..n characters from state x: a greedy
\* one tries the longest run first, a lazy one the shortest
ClassRepEnds(r, x, n) ==
    IF n < r.lo THEN <<>>
    ELSE [j \in 1..(n - r.lo + 1) |->
            [p |-> x.p + (IF r.greedy THEN n - j + 1 ELSE r.lo + j - 1), g |-> x.g]]

\* group n opened at position at and closed at each state of E
Captured(E, n, at) ==
    IF E = <<>> THEN <<>>
    ELSE [j \in 1..Len(E) |->
            [p |-> E[j].p, g |-> [E[j].g EXCEPT ![n] = <<at, E[j].p>>]]]

\* the upper bound hi of a repetition with one iteration done
OneDone(hi) == IF hi > 0 THEN hi - 1 ELSE hi

\* an optional iteration must consume something
Progressed(E, at) == SelectSeq(E, LAMBDA e : e.p > at)

RECURSIVE Ends(_, _, _)
RECURSIVE Step(_, _, _)
RECURSIVE RepEnds(_, _, _, _, _)
RECURSIVE RepOver(_, _, _, _, _)

\* r.r repeated lo..hi times from state x: a greedy repetition tries one more
\* iteration before it stops, a lazy one stops first
RepEnds(r, s, x, lo, hi) ==
    CASE hi = 0 -> <<x>>
      [] hi # 0 /\ lo > 0 ->
            RepOver(r, s, Ends(Nodes(r.r), s, <<x>>), lo - 1, OneDone(hi))
      [] hi # 0 /\ lo = 0 /\ r.greedy ->
            RepOver(r, s, Progressed(Ends(Nodes(r.r), s, <<x>>), x.p), 0, OneDone(hi))
            \o <<x>>
      [] hi # 0 /\ lo = 0 /\ ~r.greedy ->
            <<x>>
            \o RepOver(r, s, Progressed(Ends(Nodes(r.r), s, <<x>>), x.p), 0, OneDone(hi))

\* the repetition continued from each of the states it that one iteration gave
RepOver(r, s, it, lo, hi) ==
    CASE it = <<>> -> <<>>
      [] Len(it) = 1 -> RepEnds(r, s, it[1], lo, hi)
      [] Len(it) > 1 ->
            Joined(RepEnds(r, s, it[1], lo, hi),
                   KeepFirst(Flat([j \in 1..Len(it) |-> RepEnds(r, s, it[j], lo, hi)],
                                  2, Len(it))))

\* the states after the node r, from the state x
Step(r, s, x) ==
    CASE r.t \in {"set", "nset"} ->
            IF x.p < Len(s) /\ Accepts(r, At(s, x.p)) THEN Advance(<<x>>, 1) ELSE <<>>
      [] r.t = "lit" -> IF LitAt(r.cs, s, x.p) THEN Advance(<<x>>, Len(r.cs)) ELSE <<>>
      [] r.t = "cat" -> Ends(r.rs, s, <<x>>)
      [] r.t = "alt" ->
            KeepFirst(Flat([a \in 1..Len(r.rs) |-> Ends(Nodes(r.rs[a]), s, <<x>>)],
                           1, Len(r.rs)))
      [] r.t = "grp" -> Captured(Ends(Nodes(r.r), s, <<x>>), r.n, x.p)
      [] r.t = "rep" /\ r.r.t \in {"set", "nset"} ->
            \* a repeated character class: the run is measured once
            ClassRepEnds(r, x, RunLen(r.r, s, x.p, r.hi))
      [] r.t = "rep" /\ r.r.t \notin {"set", "nset"} -> RepEnds(r, s, x, r.lo, r.hi)
      [] r.t = "bol" -> IF x.p = 0 THEN <<x>> ELSE <<>>
      [] r.t = "eol" -> IF EolAt(s, x.p) THEN <<x>> ELSE <<>>

\* the states after the node r, from the states L
StepAll(r, s, L) ==
    CASE r.t \in {"set", "nset"} ->
            Advance(SelectSeq(L, LAMBDA x : x.p < Len(s) /\ Accepts(r, At(s, x.p))), 1)
      [] r.t = "lit" -> Advance(SelectSeq(L, LAMBDA x : LitAt(r.cs, s, x.p)), Len(r.cs))
      [] r.t = "bol" -> SelectSeq(L, LAMBDA x : x.p = 0)
      [] r.t = "eol" -> SelectSeq(L, LAMBDA x : EolAt(s, x.p))
      [] OTHER -> KeepFirst(Flat([j \in 1..Len(L) |-> Step(r, s, L[j])], 1, Len(L)))

Ends(k, s, L) ==
    CASE L = <<>> -> <<>>
      [] L # <<>> /\ Len(k) = 0 -> L
      [] L # <<>> /\ Len(k) = 1 /\ Len(L) = 1 -> Step(k[1], s, L[1])
      [] L # <<>> /\ Len(k) = 1 /\ Len(L) > 1 -> StepAll(k[1], s, L)
      [] L # <<>> /\ Len(k) > 1 ->
            Ends(SubSeq(k, Len(k) \div 2 + 1, Len(k)), s,
                 Ends(SubSeq(k, 1, Len(k) \div 2), s, L))

\* the match the engine finds first among the states E, begun at position b
FirstEnd(E, b) ==
    IF E = <<>> THEN NoMatch
    ELSE [ok |-> TRUE, b |-> b, e |-> E[1].p, g |-> E[1].g]

\* the match of p that starts at position i
Match(p, s, i) ==
    IF i > Len(s) THEN NoMatch
    ELSE FirstEnd(Ends(Nodes(p), s, <<[p |-> i, g |-> NoGroups]>>), i)

\* pattern.match(s)
re_match(p, s) == Match(p, s, 0)

\* the leftmost position at or after pos where a match of p starts; Len(s) + 1
\* when there is none
FirstStart(p, s, pos) ==
    CHOOSE q \in pos..(Len(s) + 1) :
        /\ q = Len(s) + 1 \/ Match(p, s, q).ok
        /\ \A x \in pos..(q - 1) : ~Match(p, s, x).ok

\* pattern.search(s, pos): the leftmost match starting at or after pos
re_search_from(p, s, pos) ==
    IF pos > Len(s) THEN NoMatch ELSE Match(p, s, FirstStart(p, s, pos))

\* pattern.search(s)
re_search(p, s) == Match(p, s, FirstStart(p, s, 0))

\* match.group(0)
Group0(s, m) == Slice(s, m.b, m.e)
\* match.group(n) of a group that took part in the match
Group(s, m, n) == Slice(s, m.g[n][1], m.g[n][2])

\* pattern.sub(repl, s) for a constant repl and a pattern with no empty
\* match: the text from pos on, m being the leftmost match at or after pos
RECURSIVE re_sub_from(_, _, _, _, _)
re_sub_from(p, repl, s, pos, m) ==
    IF ~m.ok \/ m.e = m.b THEN SliceFrom(s, pos)
    ELSE Slice(s, pos, m.b) \o repl
         \o re_sub_from(p, repl, s, m.e, re_search_from(p, s, m.e))

re_sub(p, repl, s) == re_sub_from(p, repl, s, 0, re_search(p, s))

\* pattern.sub(r'\1', s), m being the leftmost match at or after pos
RECURSIVE re_sub_group1_from(_, _, _, _)
re_sub_group1_from(p, s, pos, m) ==
    IF ~m.ok \/ m.e = m.b THEN SliceFrom(s, pos)
    ELSE Slice(s, pos, m.b) \o Group(s, m, 1)
         \o re_sub_group1_from(p, s, m.e, re_search_from(p, s, m.e))

re_sub_group1(p, s) == re_sub_group1_from(p, s, 0, re_search(p, s))

\* the match n places after the match m of pattern.finditer(s), or NoMatch
RECURSIVE finditer_after(_, _, _, _)
finditer_after(p, s, n, m) ==
    IF ~m.ok THEN NoMatch
    ELSE IF n = 0 THEN m
    ELSE finditer_after(p, s, n - 1,
                        re_search_from(p, s, IF m.e > m.b THEN m.e ELSE m.e + 1))

\* list(pattern.finditer(s))[n], or NoMatch when the list is shorter
finditer_nth(p, s, n) == finditer_after(p, s, n, re_search(p, s))

----------------------------------------------------------------------------
(* Pattern tables: src/Kingston_DB_import_chunks/sample.py, lines 10-37.   *)
(* src/sample.py writes the same expressions inline.                       *)

WS == Set(Whitespace)
\* (Intel|AMD|Nvidia) under re.IGNORECASE
VendorAlt == Alt(<<LitI("Intel"), LitI("AMD"), LitI("Nvidia")>>)
\* \([A-Za-z0-9-]+\)
ParenCode == Cat(<<Lit("("), Plus(Set(AlnumHyphen)), Lit(")")>>)

\* ^(AMD\s+A-Series\s+APU)\s*(\(FM\d+\+?\))\s*([A-Z0-9-]+[KkTt]?)\s*
\*  (AMD\s+[A-Z0-9]+)\s*(\([A-Za-z0-9-]+\))$      re.IGNORECASE
AMD_APU_PATTERN ==
    Cat(<<Bol,
          Grp(1, Cat(<<LitI("AMD"), Plus(WS), LitI("A-Series"), Plus(WS), LitI("APU")>>)),
          Star(WS),
          Grp(2, Cat(<<Lit("("), LitI("FM"), Plus(Set(Digit)), Opt(Lit("+")), Lit(")")>>)),
          Star(WS),
          Grp(3, Cat(<<Plus(Set(AlnumHyphen)), Opt(Set({"K", "k", "T", "t"}))>>)),
          Star(WS),
          Grp(4, Cat(<<LitI("AMD"), Plus(WS), Plus(Set(Alnum))>>)),
          Star(WS),
          Grp(5, ParenCode),
          Eol>>)

\* \((FM\d+\+?|AM\d+\+?)\)      case-sensitive
SOCKET_PATTERN ==
    Cat(<<Lit("("),
          Grp(1, Alt(<<Cat(<<Lit("FM"), Plus(Set(Digit)), Opt(Lit("+"))>>),
                       Cat(<<Lit("AM"), Plus(Set(Digit)), Opt(Lit("+"))>>)>>)),
          Lit(")")>>)

\* \s(Intel|AMD|Nvidia)\s      re.IGNORECASE
VENDOR_PATTERN == Cat(<<WS, Grp(1, VendorAlt), WS>>)

\* ^(Intel|AMD|Nvidia)\s+([A-Za-z0-9]+(?:\s+[A-Za-z0-9]+)*)\s*      re.IGNORECASE
VENDOR_PREFIX_PATTERN ==
    Cat(<<Bol, Grp(1, VendorAlt), Plus(WS),
          Grp(2, Cat(<<Plus(Set(Alnum)), Star(Cat(<<Plus(WS), Plus(Set(Alnum))>>))>>)),
          Star(WS)>>)

\* (Intel|AMD|Nvidia)\s+[A-Za-z0-9-]+(?:\s*\([A-Za-z0-9-]+\))?\s*(Chipset|SoC|Series)?$
CHIPSET_PATTERN_0 ==
    Cat(<<Grp(1, VendorAlt), Plus(WS), Plus(Set(AlnumHyphen)),
          Opt(Cat(<<Star(WS), ParenCode>>)), Star(WS),
          Opt(Grp(2, Alt(<<LitI("Chipset"), LitI("SoC"), LitI("Series")>>))), Eol>>)

\* (Nvidia)\s+(GeForce|nForce)\s+\d+[a-zA-Z]?\s*(Series)?$
CHIPSET_PATTERN_1 ==
    Cat(<<Grp(1, LitI("Nvidia")), Plus(WS),
          Grp(2, Alt(<<LitI("GeForce"), LitI("nForce")>>)), Plus(WS),
          Plus(Set(Digit)), Opt(Set(Letter)), Star(WS),
          Opt(Grp(3, LitI("Series"))), Eol>>)

\* \(([A-Za-z0-9-]{2,})\)$
CHIPSET_PATTERN_2 ==
    Cat(<<Lit("("), Grp(1, Rep(Set(AlnumHyphen), 2, -1, TRUE)), Lit(")"), Eol>>)

CHIPSET_PATTERNS == <<CHIPSET_PATTERN_0, CHIPSET_PATTERN_1, CHIPSET_PATTERN_2>>

\* &#\d+;?
HTML_ENTITY_PATTERN == Cat(<<Lit("&#"), Plus(Set(Digit)), Opt(Lit(";"))>>)

\* \s*\(N/A\)\s*|\s*\(N\s*|\s*A\)\s*|\s*\(F\)\s*|\(\s*\)
CLEANUP_PATTERN ==
    Alt(<<Cat(<<Star(WS), Lit("(N/A)"), Star(WS)>>),
          Cat(<<Star(WS), Lit("(N"), Star(WS)>>),
          Cat(<<Star(WS), Lit("A)"), Star(WS)>>),
          Cat(<<Star(WS), Lit("(F)"), Star(WS)>>),
          Cat(<<Lit("("), Star(WS), Lit(")")>>)>>)

\* #\d+\s*(\([A-Za-z0-9-]+\))
MALFORMED_CHIPSET_PATTERN ==
    Cat(<<Lit("#"), Plus(Set(Digit)), Star(WS), Grp(1, ParenCode)>>)

\* \s+
WHITESPACE_PATTERN == Plus(WS)

\* (Intel|AMD|Nvidia)\s+([A-Z0-9]+)\s*$      re.IGNORECASE (the bracket rule's look-back)
BRACKET_VENDOR_PATTERN ==
    Cat(<<Grp(1, VendorAlt), Plus(WS), Grp(2, Plus(Set(Alnum))), Star(WS), Eol>>)

----------------------------------------------------------------------------
(* parse_entry, src/Kingston_DB_import_chunks/sample.py *)

\* r, once v has its value: a statement of the code starts from the finished
\* result of the statements before it
After(v, r) == IF v = v THEN r ELSE r

\* line 59: the "original" reference form
OriginalForm(s) == replace(StripChars(s, {"'", " "}), "\n", " ")

\* lines 63-70: the cleaning steps applied to the original form
CleanSteps(original_s) ==
    After(original_s,
      LET s1 == re_sub(HTML_ENTITY_PATTERN, "", original_s)
      IN  After(s1,
            LET s2 == re_sub(CLEANUP_PATTERN, "", s1)
            IN  After(s2,
                  LET s3 == strip(re_sub(WHITESPACE_PATTERN, " ", s2))
                  IN  After(s3, re_sub_group1(MALFORMED_CHIPSET_PATTERN, s3)))))

\* lines 58-70: the Entry Normalizer
Normalizer(s) == CleanSteps(OriginalForm(s))

\* lines 78-89: the AMD A-Series APU rule, for a match m on original_s
AmdApuResult(original_s, m) ==
    LET proc_base == strip(Group(original_s, m, 1))
        socket_str == strip(Group(original_s, m, 2))
        proc_model == strip(Group(original_s, m, 3))
        chipset_base == strip(Group(original_s, m, 4))
        chipset_variant == strip(Group(original_s, m, 5))
    IN  [processors |-> <<strip(proc_base \o " " \o socket_str \o " " \o proc_model)>>,
         chipset |-> strip(chipset_base \o " " \o chipset_variant)]

\* the value of re.IGNORECASE, which line 111 passes as search()'s pos argument
IGNORECASE == 2

\* lines 116-121: the bracket pattern matched at m, vendor_match being the
\* search for a trailing vendor and code in the text before it
BracketResult(s, m, proc_str, vendor_match) ==
    IF vendor_match.ok
    THEN [chipset |-> Group(proc_str, vendor_match, 1) \o " "
                      \o Group(proc_str, vendor_match, 2)
                      \o " (" \o Group(s, m, 1) \o ")",
          proc_str |-> strip(Slice(proc_str, 0, vendor_match.b))]
    ELSE [chipset |-> "AMD (" \o Group(s, m, 1) \o ")", proc_str |-> proc_str]

\* lines 114-115
BracketVendor(s, m, proc_str) ==
    After(proc_str,
          BracketResult(s, m, proc_str, re_search(BRACKET_VENDOR_PATTERN, proc_str)))

\* lines 113-121: the bracket pattern matched at m
BracketSplit(s, m) == BracketVendor(s, m, strip(Slice(s, 0, m.b)))

\* lines 108-128: the trailing-chipset patterns, tried in order from index n,
\* each searched from position pos
RECURSIVE ChipsetLoop(_, _, _)
RECURSIVE ChipsetAt(_, _, _, _)

\* lines 112-126: the outcome m of searching pattern n
ChipsetAt(s, n, pos, m) ==
    IF ~m.ok THEN ChipsetLoop(s, n + 1, pos)
    ELSE IF n = 3 THEN BracketSplit(s, m)
    ELSE [chipset |-> strip(Group0(s, m)), proc_str |-> strip(Slice(s, 0, m.b))]

ChipsetLoop(s, n, pos) ==
    IF n > Len(CHIPSET_PATTERNS) THEN [chipset |-> "", proc_str |-> s]
    ELSE ChipsetAt(s, n, pos, re_search_from(CHIPSET_PATTERNS[n], s, pos))

\* line 94: group 1 of the socket match m, '' without one
SocketGroup(s, m) == IF m.ok THEN Group(s, m, 1) ELSE ""

\* lines 92-94: socket extraction
SocketOf(s) == SocketGroup(s, re_search(SOCKET_PATTERN, s))

\* line 95
RemoveSocket(s) ==
    IF re_search(SOCKET_PATTERN, s).ok THEN strip(re_sub(SOCKET_PATTERN, " ", s)) ELSE s

\* lines 104-128: the split at the second vendor word vendor_match, else the
\* trailing-chipset patterns searched from pos
VendorSplit(s, pos, vendor_match) ==
    IF vendor_match.ok
    THEN [chipset |-> strip(SliceFrom(s, vendor_match.b + 1)),
          proc_str |-> strip(Slice(s, 0, vendor_match.b))]
    ELSE ChipsetLoop(s, 1, pos)

\* lines 98-128: chipset / processor split of the socket-free string
ChipsetSplit(s, pos) ==
    After(s, VendorSplit(s, pos, finditer_nth(VENDOR_PATTERN, s, 1)))

\* lines 132-139: re-assembly around the vendor-prefix match
Reassemble(proc_str, prefix_match) ==
    LET base_prefix == IF prefix_match.ok
                       THEN strip(Group(proc_str, prefix_match, 1) \o " "
                                  \o Group(proc_str, prefix_match, 2))
                       ELSE ""
    IN  IF prefix_match.ok
        THEN strip(base_prefix \o " " \o strip(SliceFrom(proc_str, Len(base_prefix))))
        ELSE strip(base_prefix \o " " \o strip(proc_str))

\* lines 131-139: vendor-prefix split and re-assembly
AssembleProcessor(proc_str) ==
    After(proc_str, Reassemble(proc_str, re_match(VENDOR_PREFIX_PATTERN, proc_str)))

\* lines 142-143: the socket is appended when the name does not hold it
AddSocket(p, socket) ==
    IF socket # "" /\ ~Contains(p, "(" \o socket \o ")")
    THEN p \o " (" \o socket \o ")" ELSE p

\* line 146: the length threshold of the validity filter
MinNameLen == 8

\* the validity filter with the length test off by one
IsValidProcessorFromEight(p) == Len(strip(p)) >= MinNameLen /\ ~endswith(p, "(")

\* line 146: the validity filter
IsValidProcessor(p) == Len(strip(p)) > MinNameLen /\ ~endswith(p, "(")

\* line 147
CollapseName(p) == strip(re_sub(WHITESPACE_PATTERN, " ", p))

\* lines 146-147
FilterAndCollapse(processors) ==
    IF processors # <<>> /\ IsValidProcessor(processors[1])
    THEN <<CollapseName(processors[1])>> ELSE <<>>

\* lines 131-149: the result from the socket and the chipset / processor split
Finish(socket, split) ==
    After(socket, After(split,
        [processors |-> FilterAndCollapse(<<AddSocket(AssembleProcessor(split.proc_str),
                                                       socket)>>),
         chipset |-> split.chipset]))

\* lines 78-149: after cleaning; amd_match is the AMD APU search on original_s
Segment(original_s, s, amd_match) ==
    IF amd_match.ok THEN AmdApuResult(original_s, amd_match)
    ELSE After(s, Finish(SocketOf(s), ChipsetSplit(RemoveSocket(s), IGNORECASE)))

\* lines 63-149
ParseOriginal(original_s) ==
    After(original_s,
          Segment(original_s, CleanSteps(original_s),
                  re_search(AMD_APU_PATTERN, original_s)))

\* lines 47-149 (the entry is a str: process_row has stringified it)
parse_entry(entry) == ParseOriginal(OriginalForm(entry))

----------------------------------------------------------------------------
(* parse_entry, src/sample.py: the same steps with inline patterns; it     *)
(* differs from the chunk script in the socket removal (line 82) and in    *)
(* searching the trailing-chipset patterns from the start of the string.   *)

\* \s*\((FM\d+\+?|AM\d+\+?)\)\s*      (src/sample.py line 82)
SAMPLE_SOCKET_SUB_PATTERN == Cat(<<Star(WS), SOCKET_PATTERN, Star(WS)>>)

\* src/sample.py lines 79-82
sample_RemoveSocket(s) ==
    IF re_search(SOCKET_PATTERN, s).ok
    THEN strip(re_sub(SAMPLE_SOCKET_SUB_PATTERN, " ", s)) ELSE s

\* src/sample.py lines 62-158
sample_Segment(original_s, s, amd_match) ==
    IF amd_match.ok THEN AmdApuResult(original_s, amd_match)
    ELSE After(s, Finish(SocketOf(s), ChipsetSplit(sample_RemoveSocket(s), 0)))

\* src/sample.py lines 37-158
sample_ParseOriginal(original_s) ==
    After(original_s,
          sample_Segment(original_s, CleanSteps(original_s),
                         re_search(AMD_APU_PATTERN, original_s)))

\* src/sample.py lines 24-158
sample_parse_entry(entry) == sample_ParseOriginal(OriginalForm(entry))

----------------------------------------------------------------------------
(* ProcessorParser.parse_entry, src/Kingston_DB_import_chunks/new.py *)

\* ^([^+]+?)\s*\+\s*([^+]+)$      (lines 14-17)
PLUS_SEPARATOR_PATTERN ==
    Cat(<<Bol, Grp(1, LazyPlus(NotSet({"+"}))), Star(WS), Lit("+"), Star(WS),
          Grp(2, Plus(NotSet({"+"}))), Eol>>)

\* [A-Za-z0-9\s\(\)-]
ProcChar == AlnumHyphen \cup Whitespace \cup {"(", ")"}

\* ^(?P<processor>[A-Za-z0-9\s\(\)-]+(?:\s*\([^\)]*\))*)\s*
\*  (\((?P<chipset>[A-Za-z0-9\s\(\)-]+)\))?$      (lines 20-23)
PROCESSOR_CHIPSET_PATTERN ==
    Cat(<<Bol,
          Grp(1, Cat(<<Plus(Set(ProcChar)),
                       Star(Cat(<<Star(WS), Lit("("), Star(NotSet({")"})), Lit(")")>>))>>)),
          Star(WS),
          Opt(Grp(2, Cat(<<Lit("("), Grp(3, Plus(Set(ProcChar))), Lit(")")>>))),
          Eol>>)

\* the plus-separator rule with the two sides exchanged
PlusResultSwapped(s, m) ==
    [processors |-> <<strip(Group(s, m, 2))>>, chipset |-> strip(Group(s, m, 1))]

\* lines 74-77: the plus-separator rule, for a match m on s
PlusResult(s, m) ==
    [processors |-> <<strip(Group(s, m, 1))>>, chipset |-> strip(Group(s, m, 2))]

\* lines 81-84: the bracket rule, for a match m on s
ProcessorChipsetResult(s, m) ==
    [processors |-> <<strip(Group(s, m, 1))>>,
     chipset |-> IF m.g[3] # <<-1, -1>> THEN Group(s, m, 3) ELSE ""]

\* lines 72-87: the cascade over the two searches on the trimmed entry
Cascade(s, plus_match, chipset_match) ==
    IF plus_match.ok THEN PlusResult(s, plus_match)
    ELSE IF chipset_match.ok THEN ProcessorChipsetResult(s, chipset_match)
    ELSE [processors |-> <<s>>, chipset |-> ""]

\* lines 70-87
ParseTrimmed(s) ==
    After(s, Cascade(s, re_search(PLUS_SEPARATOR_PATTERN, s),
                     re_search(PROCESSOR_CHIPSET_PATTERN, s)))

\* lines 52-87
ProcessorParser_parse_entry(entry) == ParseTrimmed(strip(entry))

----------------------------------------------------------------------------
(* Python values a cell can decode to *)

PyStr(s) == [k |-> "str", s |-> s]
\* an int, kept as its decimal digits
PyInt(n) == [k |-> "int", n |-> n]
PyNone == [k |-> "None"]
\* float('nan'): what pandas yields for a missing cell
PyNaN == [k |-> "nan"]
PyList(items) == [k |-> "list", items |-> items]
PyTuple(items) == [k |-> "tuple", items |-> items]

RECURSIVE Join(_, _)
\* sep.join(parts)
Join(sep, parts) ==
    IF parts = <<>> THEN ""
    ELSE IF Len(parts) = 1 THEN parts[1]
    ELSE parts[1] \o sep \o Join(sep, Tail(parts))

\* the character c as repr writes it between quotes q
EscapeChar(c, q) ==
    CASE c = "\\" -> "\\\\"
      [] c = "\n" -> "\\n"
      [] c = "\t" -> "\\t"
      [] c = "\r" -> "\\r"
      [] c = "\f" -> "\\x0c"
      [] c = q -> "\\" \o q
      [] OTHER -> c

RECURSIVE EscapeIn(_, _, _, _)
\* s[a:b] as repr writes it between quotes q
EscapeIn(s, q, a, b) ==
    IF b <= a THEN ""
    ELSE IF b = a + 1 THEN EscapeChar(At(s, a), q)
    ELSE EscapeIn(s, q, a, (a + b) \div 2) \o EscapeIn(s, q, (a + b) \div 2, b)

\* the quote repr picks: single quotes unless s holds ' and no "
QuoteOf(s) == IF Contains(s, "'") /\ ~Contains(s, "\"") THEN "\"" ELSE "'"

\* repr(s) of a str
ReprStr(s) == QuoteOf(s) \o EscapeIn(s, QuoteOf(s), 0, Len(s)) \o QuoteOf(s)

RECURSIVE PyRepr(_)
\* repr(v)
PyRepr(v) ==
    CASE v.k = "str" -> ReprStr(v.s)
      [] v.k = "int" -> v.n
      [] v.k = "None" -> "None"
      [] v.k = "nan" -> "nan"
      [] v.k = "list" ->
            "[" \o Join(", ", [i \in 1..Len(v.items) |-> PyRepr(v.items[i])]) \o "]"
      [] v.k = "tuple" ->
            "(" \o Join(", ", [i \in 1..Len(v.items) |-> PyRepr(v.items[i])])
                \o (IF Len(v.items) = 1 THEN "," ELSE "") \o ")"

\* str(v)
PyStrOf(v) == IF v.k = "str" THEN v.s ELSE PyRepr(v)

----------------------------------------------------------------------------
(* ast.literal_eval on the literals cells hold: str (either quote, no       *)
(* backslash), decimal int, None, list, tuple.  Any other text is a         *)
(* ValueError or SyntaxError, which process_row catches.                    *)

LiteralFail == [ok |-> FALSE, v |-> PyNone, i |-> -1]

SkipWs(s, i) == LStripFrom(s, Whitespace, i)

\* the first position at or after i whose character is not in cs
ScanWhile(s, cs, i) == LStripFrom(s, cs, i)

\* the first position at or after i whose character is in cs; len(s) if none
ScanUntil(s, cs, i) ==
    IF i >= Len(s) THEN i
    ELSE CHOOSE j \in i..Len(s) :
            /\ j = Len(s) \/ At(s, j) \in cs
            /\ \A q \in i..(j - 1) : At(s, q) \notin cs

\* a delimiter (or the end) follows position i
AtDelimiter(s, i) == i >= Len(s) \/ At(s, i) \in (Whitespace \cup {",", "]", ")"})

\* position j stops the scan for the closing triple quote qqq: the text
\* ends, a backslash is met, or the quote closes there
TripleStop(s, q, j) ==
    j + 3 > Len(s) \/ At(s, j) = "\\" \/ Slice(s, j, j + 3) = q \o q \o q

\* the first position at or after i that stops the scan
StopOf(s, q, i) ==
    CHOOSE j \in i..Len(s) :
        TripleStop(s, q, j) /\ \A x \in i..(j - 1) : ~TripleStop(s, q, x)

\* the position the scan stopped at when the quote closes there, else -1
ClosedAt(s, j) == IF j + 3 > Len(s) \/ At(s, j) = "\\" THEN -1 ELSE j

\* the first position at or after i where the triple quote qqq closes; -1 if none
ScanTriple(s, q, i) == ClosedAt(s, StopOf(s, q, i))

RECURSIVE ParseStrings(_, _, _)

\* after a string literal that ends before position end, n being the next
\* position that holds no whitespace: an adjacent literal is concatenated
StringNext(s, text, end, n) ==
    IF n < Len(s) /\ At(s, n) \in {"'", "\""} THEN ParseStrings(s, n, text)
    ELSE IF end < Len(s) /\ At(s, end) \in Alnum \cup {"_"} THEN LiteralFail
    ELSE [ok |-> TRUE, v |-> PyStr(text), i |-> end]

\* the literal opened at position open with quote q of width w, j being the
\* position where the scan for its closing quote stopped
StringEnd(s, acc, q, open, j, w) ==
    IF j < 0 \/ j >= Len(s) \/ At(s, j) # q THEN LiteralFail
    ELSE StringNext(s, acc \o Slice(s, open, j), j + w, SkipWs(s, j + w))

\* the literal at position i opens with a triple quote
IsTriple(s, i) == Slice(s, i, i + 3) = At(s, i) \o At(s, i) \o At(s, i)

\* one or more adjacent string literals from position i, concatenated
ParseStrings(s, i, acc) ==
    IF IsTriple(s, i)
    THEN StringEnd(s, acc, At(s, i), i + 3, ScanTriple(s, At(s, i), i + 3), 3)
    ELSE StringEnd(s, acc, At(s, i), i + 1,
                   ScanUntil(s, {At(s, i), "\\", "\n"}, i + 1), 1)

\* the digits from i to j, z being the end of the leading zeros
IntEnd(s, i, j, z) ==
    IF ~AtDelimiter(s, j) THEN LiteralFail
    ELSE IF z = j THEN [ok |-> TRUE, v |-> PyInt("0"), i |-> j]
    ELSE IF z > i THEN LiteralFail
    ELSE [ok |-> TRUE, v |-> PyInt(Slice(s, i, j)), i |-> j]

ParseInt(s, i) == IntEnd(s, i, ScanWhile(s, Digit, i), ScanWhile(s, {"0"}, i))

RECURSIVE ParseValue(_, _)
RECURSIVE ParseItems(_, _, _, _, _)

ItemsFail == [ok |-> FALSE, items |-> <<>>, comma |-> FALSE, i |-> -1]

\* an item with no comma after it must be the last one
ItemsClosed(acc, m) == IF m.ok /\ Len(m.items) = Len(acc) + 1 THEN m ELSE ItemsFail

\* after the item v, n being the next position that holds no whitespace
ItemsSep(s, close, acc, comma, v, n) ==
    IF n < Len(s) /\ At(s, n) = ","
    THEN ParseItems(s, n + 1, close, Append(acc, v.v), TRUE)
    ELSE ItemsClosed(acc, ParseItems(s, n, close, Append(acc, v.v), comma))

ItemsAfter(s, close, acc, comma, v) ==
    IF ~v.ok THEN ItemsFail ELSE ItemsSep(s, close, acc, comma, v, SkipWs(s, v.i))

\* the items from position a, which holds no whitespace
ItemsAt(s, a, close, acc, comma) ==
    IF (IF close = "" THEN a >= Len(s) ELSE a < Len(s) /\ At(s, a) = close)
    THEN [ok |-> TRUE, items |-> acc, comma |-> comma,
          i |-> IF close = "" THEN a ELSE a + 1]
    ELSE IF a >= Len(s) THEN ItemsFail
    ELSE ItemsAfter(s, close, acc, comma, ParseValue(s, a))

\* the items up to the closing bracket; close = "" is the end of the text
ParseItems(s, i, close, acc, comma) == ItemsAt(s, SkipWs(s, i), close, acc, comma)

\* [ ... ]
ListOf(m) ==
    IF m.ok THEN [ok |-> TRUE, v |-> PyList(m.items), i |-> m.i] ELSE LiteralFail

\* ( ... ): one item and no comma is the item itself
TupleOf(m) ==
    IF ~m.ok THEN LiteralFail
    ELSE IF Len(m.items) = 1 /\ ~m.comma THEN [ok |-> TRUE, v |-> m.items[1], i |-> m.i]
    ELSE [ok |-> TRUE, v |-> PyTuple(m.items), i |-> m.i]

ParseValue(s, i) ==
    CASE At(s, i) \in {"'", "\""} -> ParseStrings(s, i, "")
      [] At(s, i) \in Digit -> ParseInt(s, i)
      [] At(s, i) = "N" ->
            IF Slice(s, i, i + 4) = "None" /\ AtDelimiter(s, i + 4)
            THEN [ok |-> TRUE, v |-> PyNone, i |-> i + 4] ELSE LiteralFail
      [] At(s, i) = "[" -> ListOf(ParseItems(s, i + 1, "]", <<>>, FALSE))
      [] At(s, i) = "(" -> TupleOf(ParseItems(s, i + 1, ")", <<>>, FALSE))
      [] OTHER -> LiteralFail

\* the value of the whole text: several items are a tuple without brackets
TopLevel(m) ==
    IF ~m.ok \/ m.items = <<>> THEN [ok |-> FALSE, v |-> PyNone]
    ELSE IF Len(m.items) = 1 /\ ~m.comma THEN [ok |-> TRUE, v |-> m.items[1]]
    ELSE [ok |-> TRUE, v |-> PyTuple(m.items)]

\* ast.literal_eval(text): ok = FALSE stands for ValueError / SyntaxError
literal_eval(text) == TopLevel(ParseItems(text, 0, "", <<>>, FALSE))

----------------------------------------------------------------------------
(* process_row: missing check, sorting and rendering *)

\* a missing check that knows None only: NaN counts as present
is_nan_none_only(value) == IF value.k = "None" THEN {"missing"} ELSE {"present"}

\* pd.isna(value) used as a condition (_is_nan, lines 40-44).  A str, int or
\* tuple is not missing; None and NaN are.  A list becomes an array of
\* per-element answers whose truth value is taken: one element gives that
\* element's answer, several raise ValueError, and none is False with a
\* warning or a ValueError depending on the numpy release.  (Lists here hold
\* scalars only.)
is_nan(value) ==
    CASE value.k \in {"None", "nan"} -> {"missing"}
      [] value.k = "list" ->
            IF Len(value.items) = 0 THEN {"present", "raise"}
            ELSE IF Len(value.items) = 1
            THEN IF value.items[1].k \in {"None", "nan"} THEN {"missing"} ELSE {"present"}
            ELSE {"raise"}
      [] OTHER -> {"present"}

\* the characters of the inputs, in code point order
CodePointOrder ==
    "\t\n\f\r !\"#$%&'()*+,-./0123456789:;<=>?@ABCDEFGHIJKLMNOPQRSTUVWXYZ[\\]^_abcdefghijklmnopqrstuvwxyz{|}~"

\* ord(c), up to an order-preserving renumbering
Ord(c) == CHOOSE i \in 0..(Len(CodePointOrder) - 1) : At(CodePointOrder, i) = c

\* the shorter of two lengths
MinLen(a, b) == IF Len(a) < Len(b) THEN Len(a) ELSE Len(b)

\* the length of the longest common prefix of a and b
CommonPrefix(a, b) ==
    CHOOSE i \in 0..MinLen(a, b) :
        /\ i = MinLen(a, b) \/ At(a, i) # At(b, i)
        /\ \A q \in 0..(i - 1) : At(a, q) = At(b, q)

\* a < b, decided at the first position d where they differ
StrLessAt(a, b, d) ==
    IF d >= Len(a) THEN d < Len(b)
    ELSE IF d >= Len(b) THEN FALSE
    ELSE Ord(At(a, d)) < Ord(At(b, d))

\* a < b for str
StrLess(a, b) == StrLessAt(a, b, CommonPrefix(a, b))

RECURSIVE sorted(_)
\* sorted(S) of a set of str
sorted(S) ==
    IF S = {} THEN <<>>
    ELSE LET m == CHOOSE a \in S : \A b \in S \ {a} : StrLess(a, b)
         IN  <<m>> \o sorted(S \ {m})

\* set(xs) of a list
ToSet(xs) == {xs[i] : i \in 1..Len(xs)}

\* the bracketed, comma-space joined repr of each name (lines 182-183)
RenderList(names) ==
    "[" \o Join(", ", [i \in 1..Len(names) |-> ReprStr(names[i])]) \o "]"

\* the names as collected: neither sorted nor made unique
AsCollected(names) == names

\* sorted(set(all_processors)), line 182
SortedUnique(names) == sorted(ToSet(names))

\* line 182
processors_joined(all_processors) ==
    IF all_processors # <<>> THEN RenderList(SortedUnique(all_processors)) ELSE "[]"

\* line 183
chipset_joined(chipsets) ==
    IF chipsets # {} THEN RenderList(sorted(chipsets)) ELSE "[]"

\* lines 160-165: the decoded entry values of a stringified cell
Decoded(text, r) ==
    IF r.ok THEN (IF r.v.k = "list" THEN r.v.items ELSE <<r.v>>)
    ELSE <<PyStr(text)>>

DecodeCell(text) == Decoded(text, literal_eval(text))

\* the script variants
Variants == {"chunks", "sample", "class"}

\* the parse_entry each variant's process_row calls (line 176; src/sample.py
\* line 185; new.py line 122)
ParseEntryOf(v, entry) ==
    After(entry, CASE v = "chunks" -> parse_entry(entry)
                   [] v = "sample" -> sample_parse_entry(entry)
                   [] v = "class" -> ProcessorParser_parse_entry(entry))

----------------------------------------------------------------------------
(* Inputs *)

\* entries per generated list cell
MaxEntries == 2
\* tokens per generated entry
MaxTokens == 3

AmdApuEntry == "AMD A-Series APU (FM2+) A8-7600 AMD A88X (Bolton-D4)"

\* entries of generated list cells
RowEntries ==
    <<"Intel Core i7 10700", " Intel Core  i7 10700 ", "Intel Core i5 10500(T)",
      "Intel Pentium B940 Intel HM65", "Intel i3", AmdApuEntry>>

RECURSIVE EntryLists(_)
\* the lists of at most n row entries
EntryLists(n) ==
    IF n = 0 THEN {<<>>}
    ELSE LET shorter == EntryLists(n - 1)
         IN  shorter \cup {Append(l, PyStr(RowEntries[i])) :
                             l \in {l \in shorter : Len(l) = n - 1},
                             i \in 1..Len(RowEntries)}

\* cell texts that are not a list of plain entries
SpecialCells ==
    {"None", "[None, 'Intel Core i7 10700']", "[['a', 'b']]", "[[]]", "[[None]]",
     "[['Intel Core i7 10700']]", "('Intel Core i7 10700', 'b')", "12345678901",
     "'Intel Core i7 10700'", "[", "Intel Core i7 10700",
     "VIA Nano X2 U4025 (dual-core) (N/A)", "Intel i7 + Nvidia GeForce",
     "['Intel Core i7 10700' 'x']", ""}

\* raw cells: missing (NaN, None) or text
Cells ==
    {PyNaN, PyNone}
    \cup {PyStr(PyRepr(PyList(l))) : l \in EntryLists(MaxEntries)}
    \cup {PyStr(c) : c \in SpecialCells}

EntryTokens == <<"Intel Core i5", "Intel i7", " ", "+", "(", ")", "(N/A)", "(AM4)">>

RECURSIVE Compose(_)
\* the concatenations of at most n tokens
Compose(n) ==
    IF n = 0 THEN {""}
    ELSE LET shorter == Compose(n - 1)
         IN  shorter \cup {e \o EntryTokens[i] : e \in shorter, i \in 1..Len(EntryTokens)}

ConcreteEntries ==
    {"VIA Nano X2 U4025 (dual-core) (N/A)", "Intel i7 + Nvidia GeForce",
     "Intel Core i5 10500(T)", "Intel Core i7 10700", AmdApuEntry,
     "AMD  A-Series   APU (FM2+) A8-7600 AMD  A88X (Bolton-D4)",
     "amd a-series apu (fm2) a10-7850k amd a88x (x)",
     "Intel Pentium B940 Intel HM65", "x Intel Core i5 Intel HM65 (AM4) x",
     "AMD Athlon II X2 AMD 760G #8203 (RS780L)", "AMD FX-8350 (AM3+) AMD 970 (RX980)",
     "Nvidia GeForce 9300M Series", "Intel Atom N270 Nvidia nForce 730i",
     "Intel Core&#8203; i5\n(F) 2400 (N/A)", "'Intel Xeon E5 (N A) Intel C602'",
     "Intel Core i5 (HM65)", "Intel i3", "VIA Nano", "VIA Nano X", "a + b + c",
     "Intel i7 +\tNvidia\nGeForce", "&&#1;#1;", "#1 #2 (x)", "AA))", "(())",
     "Intel i7+ ", " + Nvidia GeForce", "Intel (AM4) Core i5 2400",
     "AMD Ryzen 5 (AM4) 3600"}

EntryInputs == ConcreteEntries \cup Compose(MaxTokens)

----------------------------------------------------------------------------
(* State *)

VARIABLES
    pc,              \* position: "start", "loop", "done", "raised"; "entry" in SpecEntry
    variant,         \* the script whose process_row runs
    cell,            \* the raw cell value
    decoded,         \* ast.literal_eval was called
    proc_list,       \* the decoded entry values
    idx,             \* the loop's position in proc_list
    entries,         \* the entry strings handed to parse_entry, in order
    all_processors,  \* list of processor names so far
    chipsets,        \* set of chipset names so far
    result,          \* what process_row returned
    entry,           \* SpecEntry: the entry string
    fn,              \* SpecEntry: the function applied to it
    out,             \* SpecEntry: what the segmenter returned
    norm,            \* SpecEntry: successive Normalizer outputs
    candidate,       \* SpecEntry: proc_str as the vendor-prefix split receives it
    assembled,       \* SpecEntry: the processor name the split assembles
    chunk_files,     \* SpecBatch: the chunk files found, in sorted order
    file_idx,        \* SpecBatch: the loop's position in chunk_files
    row_idx,         \* SpecBatch: the row of the current file that apply is at
    df,              \* SpecBatch: the rows of the current file done so far
    all_dfs,         \* SpecBatch: the frames appended so far
    combined_df      \* SpecBatch: the rows written to the output file

vars == <<pc, variant, cell, decoded, proc_list, idx, entries, all_processors,
          chipsets, result, entry, fn, out, norm, candidate, assembled, chunk_files,
          file_idx, row_idx,
          df, all_dfs, combined_df>>

rowVars == <<variant, cell, decoded, proc_list, idx, entries, all_processors,
             chipsets, result>>
entryVars == <<entry, fn, out, norm, candidate, assembled>>
batchVars == <<chunk_files, file_idx, row_idx, df, all_dfs, combined_df>>

\* the batch variables at rest
NoBatch ==
    /\ chunk_files = <<>>
    /\ file_idx = 1
    /\ row_idx = 1
    /\ df = <<>>
    /\ all_dfs = <<>>
    /\ combined_df = <<>>

NoOut == [processors |-> <<>>, chipset |-> ""]
NoResult == <<"", "">>

----------------------------------------------------------------------------
(* process_row, one row at a time (lines 152-185; src/sample.py 161-196;   *)
(* new.py 89-130)                                                          *)

Init ==
    /\ pc = "start"
    /\ variant \in Variants
    /\ cell \in Cells
    /\ decoded = FALSE
    /\ proc_list = <<>>
    /\ idx = 1
    /\ entries = <<>>
    /\ all_processors = <<>>
    /\ chipsets = {}
    /\ result = NoResult
    /\ entry = ""
    /\ fn = "none"
    /\ out = NoOut
    /\ norm = <<>>
    /\ candidate = ""
    /\ assembled = ""
    /\ NoBatch

\* lines 155-156: a missing cell returns at once
ProcessRowMissing ==
    /\ pc = "start"
    /\ "missing" \in is_nan(cell)
    /\ result' = <<"[]", "[]">>
    /\ pc' = "done"
    /\ UNCHANGED <<variant, cell, decoded, proc_list, idx, entries, all_processors,
                   chipsets, entryVars>>
    /\ UNCHANGED batchVars

\* lines 158-168: stringify and decode
ProcessRowDecode ==
    /\ pc = "start"
    /\ "present" \in is_nan(cell)
    /\ decoded' = TRUE
    /\ proc_list' = DecodeCell(PyStrOf(cell))
    /\ idx' = 1
    /\ pc' = "loop"
    /\ UNCHANGED <<variant, cell, entries, all_processors, chipsets, result, entryVars>>
    /\ UNCHANGED batchVars

\* lines 170-172: a missing element is skipped
ProcessRowSkip ==
    /\ pc = "loop"
    /\ idx <= Len(proc_list)
    /\ "missing" \in is_nan(proc_list[idx])
    /\ idx' = idx + 1
    /\ UNCHANGED <<pc, variant, cell, decoded, proc_list, entries, all_processors,
                   chipsets, result, entryVars>>
    /\ UNCHANGED batchVars

\* line 171: the missing check itself raises; nothing in process_row catches it
ProcessRowRaise ==
    /\ pc = "loop"
    /\ idx <= Len(proc_list)
    /\ "raise" \in is_nan(proc_list[idx])
    /\ pc' = "raised"
    /\ UNCHANGED <<variant, cell, decoded, proc_list, idx, entries, all_processors,
                   chipsets, result, entryVars>>
    /\ UNCHANGED batchVars

\* lines 174-179: one entry through parse_entry
ProcessRowParse ==
    /\ pc = "loop"
    /\ idx <= Len(proc_list)
    /\ "present" \in is_nan(proc_list[idx])
    /\ entries' = Append(entries, PyStrOf(proc_list[idx]))
    /\ \E r \in {ParseEntryOf(variant, PyStrOf(proc_list[idx]))} :
          /\ all_processors' = all_processors \o r.processors
          /\ chipsets' = IF r.chipset # "" THEN chipsets \cup {strip(r.chipset)}
                         ELSE chipsets
    /\ idx' = idx + 1
    /\ UNCHANGED <<pc, variant, cell, decoded, proc_list, result, entryVars>>
    /\ UNCHANGED batchVars

\* lines 182-185: render and return
ProcessRowRender ==
    /\ pc = "loop"
    /\ idx > Len(proc_list)
    /\ result' = <<processors_joined(all_processors), chipset_joined(chipsets)>>
    /\ pc' = "done"
    /\ UNCHANGED <<variant, cell, decoded, proc_list, idx, entries, all_processors,
                   chipsets, entryVars>>
    /\ UNCHANGED batchVars

Next ==
    \/ ProcessRowMissing
    \/ ProcessRowDecode
    \/ ProcessRowSkip
    \/ ProcessRowRaise
    \/ ProcessRowParse
    \/ ProcessRowRender

Spec == Init /\ [][Next]_vars

----------------------------------------------------------------------------
(* The entry functions on their own: an entry is drawn, and one of the      *)
(* segmenters or the Entry Normalizer is applied to it.                     *)

InitEntry ==
    /\ pc = "entry"
    /\ variant = "chunks"
    /\ cell = PyNaN
    /\ decoded = FALSE
    /\ proc_list = <<>>
    /\ idx = 1
    /\ entries = <<>>
    /\ all_processors = <<>>
    /\ chipsets = {}
    /\ result = NoResult
    /\ entry \in EntryInputs
    /\ fn = "none"
    /\ out = NoOut
    /\ norm = <<>>
    /\ candidate = ""
    /\ assembled = ""
    /\ NoBatch

\* parse_entry of the chunk script
ApplyParseEntry ==
    /\ pc = "entry" /\ fn = "none"
    /\ fn' = "chunks"
    /\ out' = parse_entry(entry)
    /\ UNCHANGED <<pc, rowVars, entry, norm, candidate, assembled>>
    /\ UNCHANGED batchVars

\* parse_entry of src/sample.py
ApplySampleParseEntry ==
    /\ pc = "entry" /\ fn = "none"
    /\ fn' = "sample"
    /\ out' = sample_parse_entry(entry)
    /\ UNCHANGED <<pc, rowVars, entry, norm, candidate, assembled>>
    /\ UNCHANGED batchVars

\* ProcessorParser.parse_entry
ApplyClassParseEntry ==
    /\ pc = "entry" /\ fn = "none"
    /\ fn' = "class"
    /\ out' = ProcessorParser_parse_entry(entry)
    /\ UNCHANGED <<pc, rowVars, entry, norm, candidate, assembled>>
    /\ UNCHANGED batchVars

\* the Entry Normalizer, applied to the entry
ApplyNormalizer ==
    /\ pc = "entry" /\ fn = "none"
    /\ fn' = "normalizer"
    /\ norm' = <<Normalizer(entry)>>
    /\ UNCHANGED <<pc, rowVars, entry, out, candidate, assembled>>
    /\ UNCHANGED batchVars

\* the Entry Normalizer, applied to its own output
ApplyNormalizerAgain ==
    /\ pc = "entry" /\ fn = "normalizer" /\ Len(norm) = 1
    /\ norm' = Append(norm, Normalizer(norm[1]))
    /\ UNCHANGED <<pc, rowVars, entry, fn, out, candidate, assembled>>
    /\ UNCHANGED batchVars

\* lines 63-128: proc_str as it reaches line 131, for an entry the AMD APU rule
\* does not take
Candidate(original_s) ==
    After(original_s,
          ChipsetSplit(RemoveSocket(CleanSteps(original_s)), IGNORECASE).proc_str)

\* lines 130-139 of parse_entry: the vendor-prefix split of the candidate
ApplyVendorPrefixSplit ==
    /\ pc = "entry" /\ fn = "none"
    /\ ~re_search(AMD_APU_PATTERN, OriginalForm(entry)).ok
    /\ fn' = "split"
    /\ candidate' = Candidate(OriginalForm(entry))
    /\ assembled' = AssembleProcessor(candidate')
    /\ UNCHANGED <<pc, rowVars, entry, out, norm>>
    /\ UNCHANGED batchVars

NextEntry ==
    \/ ApplyVendorPrefixSplit
    \/ ApplyParseEntry
    \/ ApplySampleParseEntry
    \/ ApplyClassParseEntry
    \/ ApplyNormalizer
    \/ ApplyNormalizerAgain

SpecEntry == InitEntry /\ [][NextEntry]_vars

----------------------------------------------------------------------------
(* process_all_csv_chunks, src/Kingston_DB_import_chunks/sample.py, lines   *)
(* 188-227: every chunk file is read, process_row is applied to each row   *)
(* of its processor column inside one try block per file, and the frames   *)
(* that got through are concatenated and saved.                            *)

\* chunk files per run
MaxFiles == 2
\* rows per chunk file
MaxRows == 2

\* processor cells of the chunk files, as read_csv delivers them
BatchCells == {PyNaN, PyStr("['Intel Core i7 10700']"), PyStr("[['a', 'b']]")}

RECURSIVE RowsUpTo(_)
\* the columns of at most n cells
RowsUpTo(n) ==
    IF n = 0 THEN {<<>>}
    ELSE LET shorter == RowsUpTo(n - 1)
         IN  shorter \cup {Append(l, c) : l \in {l \in shorter : Len(l) = n - 1},
                                          c \in BatchCells}

\* a chunk file: unreadable, or a frame without a processor column (its rows
\* are left as they are), or a frame with one
ChunkFiles ==
    {[readable |-> FALSE, has_processor |-> FALSE, rows |-> <<>>]}
    \cup {[readable |-> TRUE, has_processor |-> FALSE, rows |-> [j \in 1..n |-> PyNaN]] :
              n \in 0..MaxRows}
    \cup {[readable |-> TRUE, has_processor |-> TRUE, rows |-> l] : l \in RowsUpTo(MaxRows)}

RECURSIVE FileLists(_)
\* the sorted glob results of at most n files
FileLists(n) ==
    IF n = 0 THEN {<<>>}
    ELSE LET shorter == FileLists(n - 1)
         IN  shorter \cup {Append(l, f) : l \in {l \in shorter : Len(l) = n - 1},
                                          f \in ChunkFiles}

Returned(pair) == [raised |-> FALSE, result |-> pair]
Raised == [raised |-> TRUE, result |-> NoResult]

RECURSIVE RowLoop(_, _, _, _)
\* lines 170-185: the loop over the decoded entries from the i-th on, and the
\* rendering; the outcomes are a returned pair or an exception
RowLoop(list, i, procs, chips) ==
    IF i > Len(list)
    THEN {Returned(<<processors_joined(procs), chipset_joined(chips)>>)}
    ELSE UNION {CASE o = "missing" -> RowLoop(list, i + 1, procs, chips)
                  [] o = "raise" -> {Raised}
                  [] o = "present" ->
                        LET r == parse_entry(PyStrOf(list[i]))
                        IN  RowLoop(list, i + 1, procs \o r.processors,
                                    IF r.chipset # "" THEN chips \cup {strip(r.chipset)}
                                    ELSE chips) :
                o \in is_nan(list[i])}

\* process_row (lines 152-185) as df['processor'].apply calls it
process_row(proc_list_str) ==
    UNION {CASE o = "missing" -> {Returned(<<"[]", "[]">>)}
             [] o = "raise" -> {Raised}
             [] o = "present" -> RowLoop(DecodeCell(PyStrOf(proc_list_str)), 1, <<>>, {}) :
           o \in is_nan(proc_list_str)}

\* pd.concat(all_dfs, ignore_index=True)
RECURSIVE concat(_)
concat(dfs) == IF dfs = <<>> THEN <<>> ELSE Head(dfs) \o concat(Tail(dfs))

InitBatch ==
    /\ pc = "files"
    /\ variant = "chunks"
    /\ cell = PyNaN
    /\ decoded = FALSE
    /\ proc_list = <<>>
    /\ idx = 1
    /\ entries = <<>>
    /\ all_processors = <<>>
    /\ chipsets = {}
    /\ result = NoResult
    /\ entry = ""
    /\ fn = "none"
    /\ out = NoOut
    /\ norm = <<>>
    /\ candidate = ""
    /\ assembled = ""
    /\ chunk_files \in FileLists(MaxFiles)
    /\ file_idx = 1
    /\ row_idx = 1
    /\ df = <<>>
    /\ all_dfs = <<>>
    /\ combined_df = <<>>

\* lines 198-200: no chunk file matches the pattern
BatchNoFiles ==
    /\ pc = "files"
    /\ chunk_files = <<>>
    /\ pc' = "returned"
    /\ UNCHANGED <<rowVars, entryVars, batchVars>>

\* line 207: read_csv delivers the frame of the next file
BatchReadFile ==
    /\ pc = "files"
    /\ file_idx <= Len(chunk_files)
    /\ chunk_files[file_idx].readable
    /\ df' = <<>>
    /\ row_idx' = 1
    /\ pc' = "frame"
    /\ UNCHANGED <<rowVars, entryVars, chunk_files, file_idx, all_dfs, combined_df>>

\* lines 207, 214-216: read_csv raises; the file is reported and skipped
BatchReadFails ==
    /\ pc = "files"
    /\ file_idx <= Len(chunk_files)
    /\ ~chunk_files[file_idx].readable
    /\ file_idx' = file_idx + 1
    /\ UNCHANGED <<pc, rowVars, entryVars, chunk_files, row_idx, df, all_dfs, combined_df>>

\* line 211: process_row returns for the next row of the processor column
BatchApplyRow ==
    /\ pc = "frame"
    /\ chunk_files[file_idx].has_processor
    /\ row_idx <= Len(chunk_files[file_idx].rows)
    /\ \E o \in process_row(chunk_files[file_idx].rows[row_idx]) :
          /\ ~o.raised
          /\ df' = Append(df, [file |-> file_idx, row |-> row_idx, value |-> o.result])
    /\ row_idx' = row_idx + 1
    /\ UNCHANGED <<pc, rowVars, entryVars, chunk_files, file_idx, all_dfs, combined_df>>

\* lines 211, 214-216: process_row raises on a row; the except clause of the
\* file's try block reports it and continues with the next file, and the
\* frame is never appended
BatchRowRaises ==
    /\ pc = "frame"
    /\ chunk_files[file_idx].has_processor
    /\ row_idx <= Len(chunk_files[file_idx].rows)
    /\ \E o \in process_row(chunk_files[file_idx].rows[row_idx]) : o.raised
    /\ df' = <<>>
    /\ row_idx' = 1
    /\ file_idx' = file_idx + 1
    /\ pc' = "files"
    /\ UNCHANGED <<rowVars, entryVars, chunk_files, all_dfs, combined_df>>

\* lines 210, 213: a frame without a processor column is appended as it is
BatchAppendUntouched ==
    /\ pc = "frame"
    /\ ~chunk_files[file_idx].has_processor
    /\ all_dfs' = Append(all_dfs, [j \in 1..Len(chunk_files[file_idx].rows) |->
                                     [file |-> file_idx, row |-> j, value |-> <<>>]])
    /\ df' = <<>>
    /\ file_idx' = file_idx + 1
    /\ pc' = "files"
    /\ UNCHANGED <<rowVars, entryVars, chunk_files, row_idx, combined_df>>

\* lines 211-213: every row is done; the frame is appended
BatchAppend ==
    /\ pc = "frame"
    /\ chunk_files[file_idx].has_processor
    /\ row_idx > Len(chunk_files[file_idx].rows)
    /\ all_dfs' = Append(all_dfs, df)
    /\ df' = <<>>
    /\ row_idx' = 1
    /\ file_idx' = file_idx + 1
    /\ pc' = "files"
    /\ UNCHANGED <<rowVars, entryVars, chunk_files, combined_df>>

\* lines 218-225: the frames are concatenated and written
BatchSave ==
    /\ pc = "files"
    /\ chunk_files # <<>>
    /\ file_idx > Len(chunk_files)
    /\ all_dfs # <<>>
    /\ combined_df' = concat(all_dfs)
    /\ pc' = "saved"
    /\ UNCHANGED <<rowVars, entryVars, chunk_files, file_idx, row_idx, df, all_dfs>>

\* lines 226-227: no frame got through
BatchNoData ==
    /\ pc = "files"
    /\ chunk_files # <<>>
    /\ file_idx > Len(chunk_files)
    /\ all_dfs = <<>>
    /\ pc' = "nodata"
    /\ UNCHANGED <<rowVars, entryVars, batchVars>>

NextBatch ==
    \/ BatchNoFiles
    \/ BatchReadFile
    \/ BatchReadFails
    \/ BatchApplyRow
    \/ BatchRowRaises
    \/ BatchAppendUntouched
    \/ BatchAppend
    \/ BatchSave
    \/ BatchNoData

SpecBatch == InitBatch /\ [][NextBatch]_vars

----------------------------------------------------------------------------
(* Properties of process_row (specification Spec) *)

\* a raw cell that pd.isna reports missing
MissingCell == cell.k \in {"None", "nan"}

\* C1: for a missing raw cell process_row returns exactly ('[]', '[]'), and
\* it neither decodes the cell nor hands anything to parse_entry.
C1_MissingCellRendersEmpty ==
    MissingCell =>
        /\ pc \in {"start", "done"}
        /\ decoded = FALSE
        /\ entries = <<>>
        /\ pc = "done" => result = <<"[]", "[]">>

\* a NaN cell has gone through process_row
C1_Witness == pc = "done" /\ cell = PyNaN /\ result = <<"[]", "[]">>

\* the str items of the list a rendered column reads back as
RenderedNames(text) ==
    [i \in 1..Len(literal_eval(text).v.items) |-> literal_eval(text).v.items[i].s]

\* the rendered column reads back as a list of str
IsRenderedList(text) ==
    /\ literal_eval(text).ok
    /\ literal_eval(text).v.k = "list"
    /\ \A i \in 1..Len(literal_eval(text).v.items) :
          literal_eval(text).v.items[i].k = "str"

\* every element is below its successor: sorted, and no element twice
StrictlySorted(xs) == \A i \in 1..(Len(xs) - 1) : StrLess(xs[i], xs[i + 1])

\* C2: each list process_row renders is lexicographically sorted and holds
\* no element twice, for processors and for chipsets; a column with no
\* element is rendered as '[]'.
C2_RenderedSortedUnique ==
    pc = "done" =>
        /\ IsRenderedList(result[1]) /\ StrictlySorted(RenderedNames(result[1]))
        /\ IsRenderedList(result[2]) /\ StrictlySorted(RenderedNames(result[2]))
        /\ all_processors = <<>> => result[1] = "[]"
        /\ chipsets = {} => result[2] = "[]"

\* two different entries gave the same processor name, rendered once
C2_Witness ==
    /\ pc = "done"
    /\ Len(entries) = 2 /\ entries[1] # entries[2]
    /\ Len(all_processors) = 2 /\ all_processors[1] = all_processors[2]
    /\ Len(RenderedNames(result[1])) = 1

\* the entries the cell decoder is to hand on for a stringified cell: the
\* non-missing elements of a list, the single value of any other literal, the
\* whole text when it is no literal
ExpectedEntries(text) ==
    IF ~literal_eval(text).ok THEN <<text>>
    ELSE IF literal_eval(text).v.k # "list" THEN <<PyStrOf(literal_eval(text).v)>>
    ELSE [i \in 1..Len(SelectSeq(literal_eval(text).v.items,
                                 LAMBDA v : v.k \notin {"None", "nan"})) |->
            PyStrOf(SelectSeq(literal_eval(text).v.items,
                              LAMBDA v : v.k \notin {"None", "nan"})[i])]

\* C5: no exception leaves process_row: a non-missing cell always ends in a
\* returned pair of rendered lists.
C5_NoExceptionPropagates == pc # "raised"

\* C6: the cell decoder never drops a non-missing cell: the entries handed
\* to parse_entry are the non-missing elements of a decoded list in order,
\* the single value of a decoded scalar, or the whole text when decoding
\* fails.
C6_DecoderKeepsCell ==
    (cell.k = "str" /\ pc = "done") => entries = ExpectedEntries(cell.s)

\* the cell of the dummy test frame with two plain processor names
C9_Cell == PyStr("['Intel Core i5 10500(T)', 'Intel Core i7 10700']")

\* C9: for the cell ['Intel Core i5 10500(T)', 'Intel Core i7 10700'] the
\* chipset column is '[]' and the processor column holds both names, sorted
\* and unchanged.
C9_PlainNamesPassThrough ==
    (cell = C9_Cell /\ variant \in {"chunks", "sample"} /\ pc = "done") =>
        result = <<"['Intel Core i5 10500(T)', 'Intel Core i7 10700']", "[]">>

----------------------------------------------------------------------------
(* Properties of the entry functions (specification SpecEntry) *)

\* a name that passes the length and open-parenthesis filter
LongEnough(p) == Len(strip(p)) > 8 /\ ~endswith(p, "(")

\* C3 as stated: no segmenter, the class parser with its plus-separator rule
\* included, emits a processor name of trimmed length <= 8 or one ending in '('.
C3_NoShortName_AllSegmenters ==
    fn \in {"chunks", "sample", "class"} =>
        \A i \in 1..Len(out.processors) : LongEnough(out.processors[i])

\* C3: the parse_entry functions of the two scripts emit no processor name
\* of trimmed length <= 8 and none ending in '(', through every rule
\* including the AMD APU rule; ProcessorParser.parse_entry applies no filter.
C3_NoShortName ==
    fn \in {"chunks", "sample"} =>
        \A i \in 1..Len(out.processors) : LongEnough(out.processors[i])

\* the filter has removed the eight-character name of an entry
C3_Witness == fn = "chunks" /\ entry = "VIA Nano" /\ out.processors = <<>>

\* C4: the Entry Normalizer is idempotent: applied to its own output it
\* returns that output.
C4_NormalizerIdempotent == Len(norm) = 2 => norm[2] = norm[1]

C7_Entry == "VIA Nano X2 U4025 (dual-core) (N/A)"

\* C7: for the entry "VIA Nano X2 U4025 (dual-core) (N/A)" the segmenter
\* returns the processor list ["VIA Nano X2 U4025 (dual-core)"] and an empty
\* chipset.
C7_DescriptorStaysInName ==
    (entry = C7_Entry /\ fn \in {"chunks", "sample", "class"}) =>
        out = [processors |-> <<"VIA Nano X2 U4025 (dual-core)">>, chipset |-> ""]

\* the entry holds exactly one plus sign
OnePlus(e) == Cardinality({i \in 0..(Len(e) - 1) : At(e, i) = "+"}) = 1

\* the position of the plus sign of such an entry
PlusAt(e) == CHOOSE i \in 0..(Len(e) - 1) : At(e, i) = "+"

\* the text before and after the plus sign
LeftOf(e) == Slice(e, 0, PlusAt(e))
RightOf(e) == SliceFrom(e, PlusAt(e) + 1)

\* C8 as stated: for every entry with non-empty text on both sides of its
\* single plus sign, the parser returns the trimmed left side as the sole
\* processor and the trimmed right side as the chipset.
C8_PlusSplit_NonEmptySides ==
    (fn = "class" /\ OnePlus(entry) /\ LeftOf(entry) # "" /\ RightOf(entry) # "") =>
        out = [processors |-> <<strip(LeftOf(entry))>>, chipset |-> strip(RightOf(entry))]

\* C8: for every entry whose single plus sign has a non-whitespace character
\* on both sides, ProcessorParser.parse_entry returns the trimmed left side
\* as the sole processor and the trimmed right side as the chipset.
C8_PlusSplit ==
    (fn = "class" /\ OnePlus(entry)
        /\ strip(LeftOf(entry)) # "" /\ strip(RightOf(entry)) # "") =>
        out = [processors |-> <<strip(LeftOf(entry))>>, chipset |-> strip(RightOf(entry))]

\* the plus-separator rule has split "Intel i7 + Nvidia GeForce"
C8_Witness ==
    /\ fn = "class" /\ entry = "Intel i7 + Nvidia GeForce"
    /\ out = [processors |-> <<"Intel i7">>, chipset |-> "Nvidia GeForce"]

\* no leading or trailing whitespace and no two whitespace characters in a row
Collapsed(name) ==
    /\ strip(name) = name
    /\ \A i \in 0..(Len(name) - 2) :
          ~(At(name, i) \in Whitespace /\ At(name, i + 1) \in Whitespace)

\* C10: every processor name and the chipset name parse_entry returns are
\* whitespace-collapsed, whichever rule produced them.
C10_NamesCollapsed ==
    fn \in {"chunks", "sample"} =>
        /\ \A i \in 1..Len(out.processors) : Collapsed(out.processors[i])
        /\ Collapsed(out.chipset)

----------------------------------------------------------------------------
(* Properties of process_all_csv_chunks (specification SpecBatch) *)

\* process_row can return for the r-th row of the f-th file
Transformable(f, r) ==
    \/ ~chunk_files[f].has_processor
    \/ \E o \in process_row(chunk_files[f].rows[r]) : ~o.raised

\* the r-th row of the f-th file is in the combined output
InOutput(f, r) == \E i \in 1..Len(combined_df) : combined_df[i].file = f /\ combined_df[i].row = r

\* C11: a processing error raised while transforming one row loses no other
\* row: once the batch has finished, every row of every readable file that
\* process_row can transform is in the combined output.
C11_OtherRowsKept ==
    pc \in {"saved", "nodata"} =>
        \A f \in 1..Len(chunk_files) :
            chunk_files[f].readable =>
                \A r \in 1..Len(chunk_files[f].rows) : Transformable(f, r) => InOutput(f, r)

----------------------------------------------------------------------------
(* Properties of the vendor-prefix split (specification SpecEntry) *)

\* the characters of s that are not whitespace, in order
NonWhitespace(s) ==
    LET at == SelectSeq([i \in 1..Len(s) |-> i - 1], LAMBDA i : At(s, i) \notin Whitespace)
    IN  [j \in 1..Len(at) |-> At(s, at[j])]

\* C12: the vendor-prefix split neither loses nor duplicates characters: for
\* every candidate on which the vendor prefix matches, the assembled name
\* (base prefix, then model remainder) has the candidate's characters,
\* whitespace ignored.
C12_PrefixSplitKeepsCharacters ==
    (fn = "split" /\ re_match(VENDOR_PREFIX_PATTERN, candidate).ok) =>
        NonWhitespace(assembled) = NonWhitespace(candidate)

----------------------------------------------------------------------------
(* Equivalence of the two parse_entry functions (specification SpecEntry) *)

\* C13: parse_entry of src/Kingston_DB_import_chunks/sample.py and
\* parse_entry of src/sample.py return the same (processors, chipset) pair
\* for every entry.
C13_ParseEntryVariantsAgree ==
    /\ fn = "chunks" => out = sample_parse_entry(entry)
    /\ fn = "sample" => out = parse_entry(entry)

====
